---------------------------- MODULE Spec2Model ----------------------------
(* Hotel booking planner: the trip configuration, the per-date selection  *)
(* store, the loading flag and the handlers and effects of App.tsx.       *)
(*                                                                         *)
(* Representation                                                          *)
(*  - an ISO date string "YYYY-MM-DD" is the tuple <<Y, M, D>>; the empty   *)
(*    string is <<>>;                                                      *)
(*  - a JavaScript number is a record [n, d] standing for n/d, with        *)
(*    d \in {1, 2}; NaN is the record with d = 0;                          *)
(*  - an optional value (hotelId?, mealId?) is <<>> for undefined and      *)
(*    <<v>> for the value v;                                               *)
(*  - a JavaScript object is a function from its own keys to their values; *)
(*    a key holding undefined is the same as an absent key;                *)
(*  - an instant (the time value of a Date) is counted in hours since      *)
(*    1970-01-01T00:00Z; the invalid Date is NaNTime.                      *)
EXTENDS Integers, Sequences, FiniteSets, TLC

(***************************************************************************)
(* Bounds of the model                                                     *)
(***************************************************************************)
\* largest whole number typed into the "Number of days" input
MaxDays == 2

(***************************************************************************)
(* JavaScript numbers                                                      *)
(***************************************************************************)
Num(i) == [n |-> i, d |-> 1]
Half(i) == [n |-> i, d |-> 2]
NaN == [n |-> 0, d |-> 0]
IsNaN(x) == x.d = 0

\* x < 1 (false for NaN)
LessThanOne(x) == ~IsNaN(x) /\ x.n < x.d

\* ToBoolean on a number: NaN and 0 are falsy
Truthy(x) == ~IsNaN(x) /\ x.n # 0

\* ToLength of the `length` option of Array.from: NaN -> 0, truncation, >= 0
ToLength(x) ==
  IF IsNaN(x) THEN 0
  ELSE IF x.n < 0 THEN 0
  ELSE x.n \div x.d

IsInteger(x) == x.d = 1

(***************************************************************************)
(* Calendar (the proleptic Gregorian calendar of ECMAScript Date)          *)
(***************************************************************************)
IsLeap(y) == ((y % 4) = 0 /\ (y % 100) # 0) \/ (y % 400) = 0

DaysInMonth(y, m) ==
  IF m = 2 THEN (IF IsLeap(y) THEN 29 ELSE 28)
  ELSE IF m \in {4, 6, 9, 11} THEN 30 ELSE 31

\* day number (days since 1970-01-01) of the civil date y-m-d; d may lie
\* outside the month, as MakeDay allows
DayFromCivil(y, m, d) ==
  LET yy  == IF m <= 2 THEN y - 1 ELSE y
      era == yy \div 400
      yoe == yy - era * 400
      mp  == IF m > 2 THEN m - 3 ELSE m + 9
      doy == (153 * mp + 2) \div 5 + d - 1
      doe == yoe * 365 + yoe \div 4 - yoe \div 100 + doy
  IN  era * 146097 + doe - 719468

\* the civil date <<y, m, d>> of a day number
CivilFromDay(z) ==
  LET zz  == z + 719468
      era == zz \div 146097
      doe == zz - era * 146097
      yoe == (doe - doe \div 1460 + doe \div 36524 - doe \div 146096) \div 365
      doy == doe - (365 * yoe + yoe \div 4 - yoe \div 100)
      mp  == (5 * doy + 2) \div 153
      d   == doy - (153 * mp + 2) \div 5 + 1
      m   == IF mp < 10 THEN mp + 3 ELSE mp - 9
      y   == yoe + era * 400 + (IF m <= 2 THEN 1 ELSE 0)
  IN  <<y, m, d>>

(***************************************************************************)
(* Time zones of the environment: standard and daylight offsets in hours   *)
(* and the instants between which the daylight offset applies.             *)
(***************************************************************************)
UTC == [name |-> "UTC", std |-> 0, dst |-> 0, dstStart |-> 0, dstEnd |-> 0]

\* Europe/Berlin in 2024: CEST from 2024-03-31T01:00Z to 2024-10-27T01:00Z
Berlin ==
  [name |-> "Europe/Berlin", std |-> 1, dst |-> 2,
   dstStart |-> DayFromCivil(2024, 3, 31) * 24 + 1,
   dstEnd   |-> DayFromCivil(2024, 10, 27) * 24 + 1]

\* America/New_York in 2024: EDT from 2024-03-10T07:00Z to 2024-11-03T06:00Z
NewYork ==
  [name |-> "America/New_York", std |-> 0 - 5, dst |-> 0 - 4,
   dstStart |-> DayFromCivil(2024, 3, 10) * 24 + 7,
   dstEnd   |-> DayFromCivil(2024, 11, 3) * 24 + 6]

\* Asia/Tokyo: a fixed offset east of Greenwich
Tokyo == [name |-> "Asia/Tokyo", std |-> 9, dst |-> 9, dstStart |-> 0, dstEnd |-> 0]

Zones == {UTC, Berlin, NewYork, Tokyo}

\* offset of local time from UTC at instant t
OffsetAt(zone, t) ==
  IF zone.dstStart <= t /\ t < zone.dstEnd THEN zone.dst ELSE zone.std

LocalTime(zone, t) == t + OffsetAt(zone, t)

\* UTC(t) of ECMAScript: a local time that occurs twice, or not at all, is
\* read with the offset in force before the transition
UTCOfLocal(zone, l) ==
  LET cands == {t \in {l - zone.std, l - zone.dst} : LocalTime(zone, t) = l}
  IN  IF cands # {}
      THEN CHOOSE t \in cands : \A u \in cands : t <= u
      ELSE l - zone.std

(***************************************************************************)
(* Date objects                                                            *)
(***************************************************************************)
\* the time value of the invalid Date (no date of the model lies before 1970)
NaNTime == 0 - 1

\* new Date(isoString): a date-only ISO string is read as UTC midnight; the
\* empty string and a string naming no calendar date give the invalid Date
DateParse(s) ==
  IF Len(s) # 3 THEN NaNTime
  ELSE IF s[2] \notin 1..12 THEN NaNTime
  ELSE IF s[3] \notin 1..DaysInMonth(s[1], s[2]) THEN NaNTime
  ELSE DayFromCivil(s[1], s[2], s[3]) * 24

\* Date.prototype.getDate: day of the month in local time
GetDate(zone, t) == CivilFromDay(LocalTime(zone, t) \div 24)[3]

\* Date.prototype.setDate(dt): same local year, month and time of day, day
\* of the month dt (carried into the following months when too large)
SetDate(zone, t, dt) ==
  LET l     == LocalTime(zone, t)
      civil == CivilFromDay(l \div 24)
      day   == DayFromCivil(civil[1], civil[2], dt)
  IN  UTCOfLocal(zone, day * 24 + (l % 24))

\* Date.prototype.toISOString().split('T')[0]: the UTC calendar date
ToISODate(t) == CivilFromDay(t \div 24)

(***************************************************************************)
(* buildTripDates                                                          *)
(***************************************************************************)
\* mutant: no check of the parsed start date
buildTripDates_NoParseCheck(zone, startDate, days) ==
  IF startDate = <<>> \/ LessThanOne(days) THEN <<>>
  ELSE LET parsed == DateParse(startDate)
       IN  [index \in 1..ToLength(days) |->
              ToISODate(SetDate(zone, parsed,
                                GetDate(zone, parsed) + (index - 1)))]

buildTripDates(zone, startDate, days) ==
  IF startDate = <<>> \/ LessThanOne(days) THEN <<>>
  ELSE LET parsed == DateParse(startDate)
       IN  IF parsed = NaNTime THEN <<>>
           ELSE [index \in 1..ToLength(days) |->
                   ToISODate(SetDate(zone, parsed,
                                     GetDate(zone, parsed) + (index - 1)))]

(***************************************************************************)
(* Text of the "Number of days" input and its conversion                   *)
(***************************************************************************)
Digit == <<"0", "1", "2", "3", "4", "5", "6", "7", "8", "9">>

DigitValue(c) == (CHOOSE i \in 1..10 : Digit[i] = c) - 1

IsDigit(c) == \E i \in 1..10 : Digit[i] = c

\* value of a string of decimal digits
RECURSIVE DigitsValue(_)
DigitsValue(cs) ==
  IF cs = <<>> THEN 0
  ELSE 10 * DigitsValue(SubSeq(cs, 1, Len(cs) - 1)) + DigitValue(cs[Len(cs)])

AllDigits(cs) == cs # <<>> /\ \A i \in 1..Len(cs) : IsDigit(cs[i])

\* StringToNumber on an unsigned decimal literal: digits, or digits ".5"
UnsignedToNumber(cs) ==
  IF AllDigits(cs) THEN Num(DigitsValue(cs))
  ELSE IF Len(cs) >= 3 /\ cs[Len(cs) - 1] = "." /\ cs[Len(cs)] = "5"
          /\ AllDigits(SubSeq(cs, 1, Len(cs) - 2))
       THEN Half(2 * DigitsValue(SubSeq(cs, 1, Len(cs) - 2)) + 1)
       ELSE NaN

\* Number(string): the empty string is 0, a decimal literal is its value,
\* anything else is NaN
StringToNumber(cs) ==
  IF cs = <<>> THEN Num(0)
  ELSE IF cs[1] = "-"
       THEN LET u == UnsignedToNumber(Tail(cs))
            IN  [n |-> 0 - u.n, d |-> u.d]
       ELSE UnsignedToNumber(cs)

\* Number(number)
ToNumber(x) == x

(***************************************************************************)
(* Static data (data.ts)                                                   *)
(***************************************************************************)
countries == <<"Turkey", "Italy">>

boardTypes == <<"FB", "HB", "NB">>

hotelsByCountry ==
  [Turkey |-> << [id |-> 0, price |-> 100], [id |-> 1, price |-> 120] >>,
   Italy  |-> << [id |-> 1, price |-> 150] >>]

mealsByCountry ==
  [Turkey |-> [lunch  |-> << [id |-> 0, price |-> 15], [id |-> 1, price |-> 20] >>,
               dinner |-> << [id |-> 0, price |-> 30], [id |-> 1, price |-> 25] >>],
   Italy  |-> [lunch  |-> << [id |-> 1, price |-> 22] >>,
               dinner |-> << >>]]

(***************************************************************************)
(* Optional values and objects                                             *)
(***************************************************************************)
undefined == <<>>
Some(v) == <<v>>

\* ToBoolean on an optional number: undefined and 0 are falsy
TruthyId(o) == o # undefined /\ o[1] # 0

Range(seq) == {seq[i] : i \in 1..Len(seq)}

EmptyObject == <<>>

\* obj[key], undefined when the key is absent
Get(obj, key) == IF key \in DOMAIN obj THEN Some(obj[key]) ELSE undefined

\* delete obj[key]
Delete(obj, key) == [k \in DOMAIN obj \ {key} |-> obj[k]]

\* obj[key] = value
Put(obj, key, value) ==
  IF value = undefined THEN Delete(obj, key)
  ELSE [k \in DOMAIN obj \cup {key} |-> IF k = key THEN value[1] ELSE obj[k]]

(***************************************************************************)
(* dailySelectionsSlice                                                    *)
(***************************************************************************)
\* state[date] after `if (!state[date]) state[date] = {}`
WithRecord(state, date) ==
  [d \in DOMAIN state \cup {date} |->
     IF d \in DOMAIN state THEN state[d] ELSE EmptyObject]

\* mutant: the hotel id is written to the record of every date
updateHotel_EveryDate(state, date, hotelId) ==
  LET s == WithRecord(state, date)
  IN  [d \in DOMAIN s |-> Put(s[d], "hotelId", hotelId)]

\* mutant: the record of the date is replaced by one with the hotel only
updateHotel_ReplacesRecord(state, date, hotelId) ==
  [d \in DOMAIN state \cup {date} |->
     IF d = date THEN Put(EmptyObject, "hotelId", hotelId) ELSE state[d]]

updateHotel(state, date, hotelId) ==
  LET s == WithRecord(state, date)
  IN  [s EXCEPT ![date] = Put(s[date], "hotelId", hotelId)]

\* mutant: clearing one meal removes both meals
updateMeal_ClearsBothMeals(state, date, field, mealId) ==
  LET s == WithRecord(state, date)
  IN  IF ~TruthyId(mealId)
      THEN [s EXCEPT ![date] = Delete(Delete(s[date], "lunchId"), "dinnerId")]
      ELSE [s EXCEPT ![date] = Put(s[date], field, mealId)]

updateMeal(state, date, field, mealId) ==
  LET s == WithRecord(state, date)
  IN  IF ~TruthyId(mealId)
      THEN [s EXCEPT ![date] = Delete(s[date], field)]
      ELSE [s EXCEPT ![date] = Put(s[date], field, mealId)]

\* mutant: clears lunch only
clearMeals_KeepsDinner(state, dates) ==
  [d \in DOMAIN state |->
     IF d \in Range(dates) THEN Delete(state[d], "lunchId") ELSE state[d]]

clearMeals(state, dates) ==
  [d \in DOMAIN state |->
     IF d \in Range(dates)
     THEN LET hotelId == Get(state[d], "hotelId")
          IN  IF TruthyId(hotelId)
              THEN Put(EmptyObject, "hotelId", hotelId)
              ELSE EmptyObject
     ELSE state[d]]

\* mutant: merges the new dates into the old mapping
syncWithDates_KeepsOldKeys(state, dates) ==
  [d \in DOMAIN state \cup Range(dates) |->
     IF d \in DOMAIN state THEN state[d] ELSE EmptyObject]

\* mutant: starts every date from an empty record
syncWithDates_Fresh(state, dates) == [d \in Range(dates) |-> EmptyObject]

\* mutant: creates the records of the dates the mapping lacks, no more
syncWithDates_OnlyNewDates(state, dates) ==
  [d \in Range(dates) \ DOMAIN state |-> EmptyObject]

syncWithDates(state, dates) ==
  [d \in Range(dates) |-> IF d \in DOMAIN state THEN state[d] ELSE EmptyObject]

(***************************************************************************)
(* tripConfigSlice, loadingSlice                                           *)
(***************************************************************************)
\* mutant: an update of another field than days resets the board type
updateConfig_ResetsBoardType(state, key, value) ==
  IF key = "days"
  THEN [state EXCEPT !.days = ToNumber(value)]
  ELSE [state EXCEPT ![key] = value, !.boardType = "FB"]

updateConfig(state, key, value) ==
  IF key = "days"
  THEN [state EXCEPT !.days = ToNumber(value)]
  ELSE [state EXCEPT ![key] = value]

updateBoardType(state, code) == [state EXCEPT !.boardType = code]

setLoading(state, isLoading, message) ==
  [isLoading |-> isLoading, loadingMessage |-> message]

(***************************************************************************)
(* App: state                                                              *)
(***************************************************************************)
VARIABLES
  tz,              \* time zone of the environment
  tripConfig,      \* state.tripConfig
  dailySelections, \* state.dailySelections
  loading,         \* state.loading
  timer,           \* TRUE while the 500 ms timeout of the loading effect is pending
  tripDates,       \* the memoised tripDates of the last render
  pc,              \* position inside a handler or between a render and its effects
  lastOp           \* the handler or callback that ran last, and whether it
                   \* returned before dispatching anything

vars == <<tz, tripConfig, dailySelections, loading, timer, tripDates, pc, lastOp>>

\* values a date input hands to the start-date handler
StartDates == {<<>>, <<2024, 3, 8>>, <<2024, 3, 9>>}

\* texts a number input hands to the days handler
DaysTexts ==
  {<<>>, <<"-", "1">>}
    \cup {<<Digit[i + 1]>> : i \in 0..MaxDays}
    \cup {<<Digit[MaxDays], ".", "5">>}

\* time zone the application is run in: one with a daylight-saving change,
\* which StartDates straddle
AppZones == {NewYork}

Idle == [at |-> "idle", date |-> <<>>, field |-> ""]

Ran(handler) == [handler |-> handler, early |-> FALSE]

ReturnedEarly(handler) == [handler |-> handler, early |-> TRUE]

otherField(field) == IF field = "lunchId" THEN "dinnerId" ELSE "lunchId"

availableHotels == hotelsByCountry[tripConfig.destination]

mealOptions == mealsByCountry[tripConfig.destination]

\* the ids of the <option>s of a select, with the empty option
Options(entries) == {undefined} \cup {Some(entries[i].id) : i \in 1..Len(entries)}

MealEntries(field) ==
  IF field = "lunchId" THEN mealOptions.lunch ELSE mealOptions.dinner

initialState ==
  [citizenship |-> "", startDate |-> <<>>, days |-> Num(3),
   destination |-> countries[1], boardType |-> "FB"]

\* the store at construction and the first render, whose effects are pending
Init ==
  /\ tz \in AppZones
  /\ \E todayIso \in StartDates \ {<<>>} :
       /\ tripConfig = [initialState EXCEPT !.startDate = todayIso]
       /\ tripDates = buildTripDates(tz, todayIso, initialState.days)
  /\ dailySelections = EmptyObject
  /\ loading = [isLoading |-> FALSE, loadingMessage |-> undefined]
  /\ timer = FALSE
  /\ pc = [Idle EXCEPT !.at = "effects"]
  /\ lastOp = Ran("mount")

(***************************************************************************)
(* App: render and effects                                                 *)
(***************************************************************************)
\* the render that follows a change of tripConfig: useMemo recomputes
\* tripDates when startDate or days changed, and the two effects that depend
\* on tripDates are then pending
Render(config) ==
  IF config.startDate # tripConfig.startDate \/ config.days # tripConfig.days
  THEN /\ tripDates' = buildTripDates(tz, config.startDate, config.days)
       /\ pc' = [Idle EXCEPT !.at = "effects"]
  ELSE /\ tripDates' = tripDates
       /\ pc' = Idle

\* the loading effect (cleanup of its previous run, then its body) and the
\* syncWithDates effect
RunEffects ==
  /\ pc.at = "effects"
  /\ IF Len(tripDates) > 0
     THEN /\ loading' = setLoading(loading, TRUE, Some("Loading trip data..."))
          /\ timer' = TRUE
     ELSE /\ loading' = loading
          /\ timer' = FALSE
  /\ dailySelections' = syncWithDates(dailySelections, tripDates)
  /\ pc' = Idle
  /\ lastOp' = Ran("effects")
  /\ UNCHANGED <<tz, tripConfig, tripDates>>

\* the callback of setTimeout
TimerFires ==
  /\ pc.at = "idle"
  /\ timer
  /\ loading' = setLoading(loading, FALSE, undefined)
  /\ timer' = FALSE
  /\ lastOp' = Ran("timer")
  /\ UNCHANGED <<tz, tripConfig, dailySelections, tripDates, pc>>

(***************************************************************************)
(* App: handlers                                                           *)
(***************************************************************************)
\* mutant: a change of destination empties the selections
handleConfigChange_ResetsSelections(key, value) ==
  /\ pc.at = "idle"
  /\ tripConfig' = updateConfig(tripConfig, key, value)
  /\ dailySelections' = IF key = "destination"
                        THEN [date \in DOMAIN dailySelections |-> EmptyObject]
                        ELSE dailySelections
  /\ Render(tripConfig')
  /\ lastOp' = Ran("handleConfigChange")
  /\ UNCHANGED <<tz, loading, timer>>

handleConfigChange(key, value) ==
  /\ pc.at = "idle"
  /\ tripConfig' = updateConfig(tripConfig, key, value)
  /\ Render(tripConfig')
  /\ lastOp' = Ran("handleConfigChange")
  /\ UNCHANGED <<tz, dailySelections, loading, timer>>

ChangeCitizenship ==
  \E value \in {""} \cup {countries[1]} : handleConfigChange("citizenship", value)

ChangeStartDate ==
  \E value \in StartDates : handleConfigChange("startDate", value)

\* onChange of the days input: Number(event.target.value) || 1
ChangeDays ==
  \E text \in DaysTexts :
    LET number == StringToNumber(text)
    IN  handleConfigChange("days", IF Truthy(number) THEN number ELSE Num(1))

ChangeDestination ==
  \E value \in Range(countries) : handleConfigChange("destination", value)

\* mutant: no comparison with the current board type
handleBoardChange_NoEqualityCheck(code) ==
  /\ pc.at = "idle"
  /\ lastOp' = Ran("handleBoardChange")
  /\ tripConfig' = updateBoardType(tripConfig, code)
  /\ pc' = IF code = "NB" THEN [Idle EXCEPT !.at = "clearMeals"] ELSE Idle
  /\ UNCHANGED <<tz, dailySelections, loading, timer, tripDates>>

\* mutant: clearMeals after every change of board type
handleBoardChange_AlwaysClears(code) ==
  /\ pc.at = "idle"
  /\ IF code = tripConfig.boardType
     THEN /\ lastOp' = ReturnedEarly("handleBoardChange")
          /\ UNCHANGED <<tripConfig, pc>>
     ELSE /\ lastOp' = Ran("handleBoardChange")
          /\ tripConfig' = updateBoardType(tripConfig, code)
          /\ pc' = [Idle EXCEPT !.at = "clearMeals"]
  /\ UNCHANGED <<tz, dailySelections, loading, timer, tripDates>>

handleBoardChange(code) ==
  /\ pc.at = "idle"
  /\ IF code = tripConfig.boardType
     THEN /\ lastOp' = ReturnedEarly("handleBoardChange")
          /\ UNCHANGED <<tripConfig, pc>>
     ELSE /\ lastOp' = Ran("handleBoardChange")
          /\ tripConfig' = updateBoardType(tripConfig, code)
          /\ pc' = IF code = "NB" THEN [Idle EXCEPT !.at = "clearMeals"] ELSE Idle
  /\ UNCHANGED <<tz, dailySelections, loading, timer, tripDates>>

\* second dispatch of handleBoardChange
DispatchClearMeals ==
  /\ pc.at = "clearMeals"
  /\ dailySelections' = clearMeals(dailySelections, tripDates)
  /\ pc' = Idle
  /\ UNCHANGED <<tz, tripConfig, loading, timer, tripDates, lastOp>>

ChangeBoard == \E code \in Range(boardTypes) : handleBoardChange(code)

handleHotelChange(date, hotelId) ==
  /\ pc.at = "idle"
  /\ dailySelections' = updateHotel(dailySelections, date, hotelId)
  /\ lastOp' = Ran("handleHotelChange")
  /\ UNCHANGED <<tz, tripConfig, loading, timer, tripDates, pc>>

ChangeHotel ==
  \E date \in Range(tripDates) : \E hotelId \in Options(availableHotels) :
    handleHotelChange(date, hotelId)

\* mutant: no return under NB
handleMealChange_NoBoardCheck(date, field, mealId) ==
  /\ pc.at = "idle"
  /\ lastOp' = Ran("handleMealChange")
  /\ dailySelections' = updateMeal(dailySelections, date, field, mealId)
  /\ pc' = IF TruthyId(mealId) /\ tripConfig.boardType = "HB"
           THEN [at |-> "otherMeal", date |-> date, field |-> otherField(field)]
           ELSE Idle
  /\ UNCHANGED <<tz, tripConfig, loading, timer, tripDates>>

\* mutant: the other meal is cleared under every board type with meals
handleMealChange_AlwaysExclusive(date, field, mealId) ==
  /\ pc.at = "idle"
  /\ IF tripConfig.boardType = "NB"
     THEN /\ lastOp' = ReturnedEarly("handleMealChange")
          /\ UNCHANGED <<dailySelections, pc>>
     ELSE /\ lastOp' = Ran("handleMealChange")
          /\ dailySelections' = updateMeal(dailySelections, date, field, mealId)
          /\ pc' = IF TruthyId(mealId)
                   THEN [at |-> "otherMeal", date |-> date,
                         field |-> otherField(field)]
                   ELSE Idle
  /\ UNCHANGED <<tz, tripConfig, loading, timer, tripDates>>

handleMealChange(date, field, mealId) ==
  /\ pc.at = "idle"
  /\ IF tripConfig.boardType = "NB"
     THEN /\ lastOp' = ReturnedEarly("handleMealChange")
          /\ UNCHANGED <<dailySelections, pc>>
     ELSE /\ lastOp' = Ran("handleMealChange")
          /\ dailySelections' = updateMeal(dailySelections, date, field, mealId)
          /\ pc' = IF TruthyId(mealId) /\ tripConfig.boardType = "HB"
                   THEN [at |-> "otherMeal", date |-> date,
                         field |-> otherField(field)]
                   ELSE Idle
  /\ UNCHANGED <<tz, tripConfig, loading, timer, tripDates>>

\* second dispatch of handleMealChange under HB
DispatchOtherMeal ==
  /\ pc.at = "otherMeal"
  /\ dailySelections' = updateMeal(dailySelections, pc.date, pc.field, undefined)
  /\ pc' = Idle
  /\ UNCHANGED <<tz, tripConfig, loading, timer, tripDates, lastOp>>

ChangeMeal ==
  \E date \in Range(tripDates) : \E field \in {"lunchId", "dinnerId"} :
    \E mealId \in Options(MealEntries(field)) :
      handleMealChange(date, field, mealId)

Next ==
  \/ RunEffects
  \/ TimerFires
  \/ ChangeCitizenship
  \/ ChangeStartDate
  \/ ChangeDays
  \/ ChangeDestination
  \/ ChangeBoard
  \/ DispatchClearMeals
  \/ ChangeHotel
  \/ DispatchOtherMeal
  \/ ChangeMeal

Spec == Init /\ [][Next]_vars

(***************************************************************************)
(* App: pricing computed by a render                                       *)
(***************************************************************************)
\* mutant: the first entry of the list, whatever its id
Find_FirstEntry(entries, id) ==
  IF entries = <<>> \/ id = undefined THEN undefined ELSE Some(entries[1])

\* entries.find((item) => item.id === id): the first entry with that id
Find(entries, id) ==
  LET hits == {i \in 1..Len(entries) : Some(entries[i].id) = id}
  IN  IF hits = {} THEN undefined
      ELSE Some(entries[CHOOSE i \in hits : \A j \in hits : i <= j])

\* entry?.price ?? 0
PriceOrZero(entry) == IF entry = undefined THEN 0 ELSE entry[1].price

dailyBreakdown ==
  [index \in 1..Len(tripDates) |->
     LET date      == tripDates[index]
         selection == IF date \in DOMAIN dailySelections
                      THEN dailySelections[date] ELSE EmptyObject
         hotel     == Find(availableHotels, Get(selection, "hotelId"))
         lunch     == Find(mealOptions.lunch, Get(selection, "lunchId"))
         dinner    == Find(mealOptions.dinner, Get(selection, "dinnerId"))
     IN  [date |-> date, hotel |-> hotel, lunch |-> lunch, dinner |-> dinner,
          subtotal |-> PriceOrZero(hotel) + PriceOrZero(lunch)
                         + PriceOrZero(dinner)]]

\* entries.reduce((acc, entry) => acc + entry.subtotal, 0)
RECURSIVE Reduce(_, _)
Reduce(entries, acc) ==
  IF entries = <<>> THEN acc
  ELSE Reduce(Tail(entries), acc + Head(entries).subtotal)

\* mutant: the total of every record of the store
RECURSIVE SumOfRecords(_)
SumOfRecords(dates) ==
  IF dates = {} THEN 0
  ELSE LET date      == CHOOSE d \in dates : TRUE
           selection == dailySelections[date]
       IN  PriceOrZero(Find(availableHotels, Get(selection, "hotelId")))
             + PriceOrZero(Find(mealOptions.lunch, Get(selection, "lunchId")))
             + PriceOrZero(Find(mealOptions.dinner, Get(selection, "dinnerId")))
             + SumOfRecords(dates \ {date})

grandTotal_OverStore == SumOfRecords(DOMAIN dailySelections)

grandTotal == Reduce(dailyBreakdown, 0)

\* the application when a pending timer eventually fires and a handler or
\* the effects of a render, once started, run to their end
SpecLive ==
  /\ Init
  /\ [][Next]_vars
  /\ WF_vars(TimerFires)
  /\ WF_vars(RunEffects)
  /\ WF_vars(DispatchClearMeals)
  /\ WF_vars(DispatchOtherMeal)

(***************************************************************************)
(* buildTripDates alone: every start date and day count of the bounded     *)
(* input sets, in every time zone                                          *)
(***************************************************************************)
\* start dates handed to buildTripDates: the empty string, a string naming
\* no calendar date, dates before a month end, a leap day, a year end and
\* the daylight-saving changes of the zones
DateInputs ==
  {<<>>, <<2024, 13, 1>>, <<2024, 1, 30>>, <<2024, 2, 28>>, <<2024, 3, 1>>,
   <<2024, 12, 30>>, <<2024, 3, 9>>, <<2024, 3, 30>>, <<2024, 11, 2>>}

\* day counts handed to buildTripDates
DaysInputs ==
  {Num(i) : i \in (0 - 1)..(MaxDays + 1)}
    \cup {Half(1), Half(2 * MaxDays + 1), NaN}

InitDates ==
  /\ tz \in Zones
  /\ \E startDate \in DateInputs : \E days \in DaysInputs :
       tripConfig = [initialState EXCEPT !.startDate = startDate, !.days = days]
  /\ tripDates = <<>>
  /\ dailySelections = EmptyObject
  /\ loading = [isLoading |-> FALSE, loadingMessage |-> undefined]
  /\ timer = FALSE
  /\ pc = [Idle EXCEPT !.at = "call"]
  /\ lastOp = Ran("mount")

CallBuildTripDates ==
  /\ pc.at = "call"
  /\ tripDates' = buildTripDates(tz, tripConfig.startDate, tripConfig.days)
  /\ pc' = [Idle EXCEPT !.at = "return"]
  /\ lastOp' = Ran("buildTripDates")
  /\ UNCHANGED <<tz, tripConfig, dailySelections, loading, timer>>

NextInputs ==
  /\ pc.at = "return"
  /\ \E startDate \in DateInputs : \E days \in DaysInputs :
       tripConfig' = [tripConfig EXCEPT !.startDate = startDate, !.days = days]
  /\ tripDates' = <<>>
  /\ pc' = [Idle EXCEPT !.at = "call"]
  /\ UNCHANGED <<tz, dailySelections, loading, timer, lastOp>>

NextDates == CallBuildTripDates \/ NextInputs

SpecDates == InitDates /\ [][NextDates]_vars

(***************************************************************************)
(* Vocabulary of the properties                                            *)
(***************************************************************************)
HasLunch(record) == "lunchId" \in DOMAIN record
HasDinner(record) == "dinnerId" \in DOMAIN record
HasHotel(record) == "hotelId" \in DOMAIN record

\* the date i calendar days after the ISO date iso
AddDays(iso, i) == CivilFromDay(DayFromCivil(iso[1], iso[2], iso[3]) + i)

\* the dates derived from the current startDate and days
DerivedDates == buildTripDates(tz, tripConfig.startDate, tripConfig.days)

MealFields == {"lunchId", "dinnerId"}

\* the ids a meal select can hand to handleMealChange, whatever the destination
MealIds == {undefined, Some(0), Some(1)}

(***************************************************************************)
(* C1 - C10                                                                *)
(***************************************************************************)

\* C1: once the resync that follows a change of the date sequence has run,
\* the keys of the selection store are exactly the dates derived from the
\* current startDate and days
C1_KeysAreDerivedDates ==
  pc.at # "effects" => DOMAIN dailySelections = Range(DerivedDates)

\* days was changed from its initial 3 to 2, the resync has run and carried
\* a record with a hotel over
C1_Witness ==
  /\ lastOp = Ran("effects")
  /\ pc.at = "idle"
  /\ tripConfig.days = Num(2)
  /\ Cardinality(DOMAIN dailySelections) = 2
  /\ \E d \in DOMAIN dailySelections : HasHotel(dailySelections[d])

\* C2: syncWithDates(D) on the store S yields the mapping keyed exactly by
\* the dates of D, each date mapped to S[d] when d was a key of S and to the
\* empty record otherwise
C2_SyncWithDatesResult ==
  [][pc.at = "effects" =>
       /\ DOMAIN dailySelections' = Range(tripDates)
       /\ \A d \in Range(tripDates) :
            dailySelections'[d] =
              IF d \in DOMAIN dailySelections THEN dailySelections[d]
              ELSE EmptyObject]_vars

\* a resync has just run, after which one record is one that was carried
\* over (it holds selections) and another is empty
C2_Witness ==
  /\ lastOp = Ran("effects")
  /\ \E d \in DOMAIN dailySelections :
       HasHotel(dailySelections[d]) /\ HasLunch(dailySelections[d])
  /\ \E d \in DOMAIN dailySelections : dailySelections[d] = EmptyObject

\* C3: whenever the board type is HB, no date's record has both lunch and
\* dinner populated (stated for the states between two user operations)
C3_HalfBoardAtMostOneMeal ==
  (tripConfig.boardType = "HB" /\ pc.at = "idle") =>
    \A d \in DOMAIN dailySelections :
      ~(HasLunch(dailySelections[d]) /\ HasDinner(dailySelections[d]))

\* C4: under HB, handleMealChange(date, field, id) with a defined id, on a
\* date whose record has the other meal set, never leaves a store state with
\* both meals populated, and ends with field = id and the other meal cleared
C4_HalfBoardSetMealClearsOther ==
  [][\A d \in Range(tripDates) : \A f \in MealFields :
       \A m \in MealIds \ {undefined} :
         ( /\ tripConfig.boardType = "HB"
           /\ d \in DOMAIN dailySelections
           /\ otherField(f) \in DOMAIN dailySelections[d]
           /\ handleMealChange(d, f, m) )
         => /\ ~(HasLunch(dailySelections'[d]) /\ HasDinner(dailySelections'[d]))
            /\ (pc'.at = "idle" =>
                  /\ Get(dailySelections'[d], f) = m
                  /\ otherField(f) \notin DOMAIN dailySelections'[d])]_vars

\* C5: handleMealChange while the board type is NB changes neither the
\* selection store nor the configuration
C5_NoBoardIgnoresMealChange ==
  [][\A d \in Range(tripDates) : \A f \in MealFields : \A m \in MealIds :
       (tripConfig.boardType = "NB" /\ handleMealChange(d, f, m))
       => UNCHANGED <<dailySelections, tripConfig>>]_vars

\* a meal edit was attempted, and ignored, under NB on a store that holds a
\* selection
C5_Witness ==
  /\ lastOp = ReturnedEarly("handleMealChange")
  /\ tripConfig.boardType = "NB"
  /\ \E d \in DOMAIN dailySelections : HasHotel(dailySelections[d])

\* C6: the clearMeals of a switch to NB leaves every date of the current date
\* sequence with lunch and dinner cleared and its hotel id as it was
C6_NoBoardKeepsHotelIds ==
  [][pc.at = "clearMeals" =>
       \A d \in Range(tripDates) :
         /\ d \in DOMAIN dailySelections'
         /\ ~HasLunch(dailySelections'[d])
         /\ ~HasDinner(dailySelections'[d])
         /\ Get(dailySelections'[d], "hotelId") = Get(dailySelections[d], "hotelId")]_vars

\* C7: while the board type is NB, and once the clearMeals of the switch has
\* been dispatched, no record has lunch or dinner populated
C7_NoBoardHasNoMeals ==
  (tripConfig.boardType = "NB" /\ pc.at # "clearMeals") =>
    \A d \in DOMAIN dailySelections :
      ~HasLunch(dailySelections[d]) /\ ~HasDinner(dailySelections[d])

\* under NB a start-date or days change was resynced and carried a record
\* with a hotel over
C7_Witness ==
  /\ tripConfig.boardType = "NB"
  /\ lastOp = Ran("effects")
  /\ pc.at = "idle"
  /\ \E d \in DOMAIN dailySelections : HasHotel(dailySelections[d])
  /\ \E d \in DOMAIN dailySelections : ~HasHotel(dailySelections[d])

\* C8: handleBoardChange with the current board type changes neither the
\* configuration nor the selection store and dispatches no clearMeals
C8_SameBoardTypeIsNoOp ==
  [][handleBoardChange(tripConfig.boardType)
       => UNCHANGED <<tripConfig, dailySelections, pc>>]_vars

\* NB was selected again while NB, on a store holding the hotel id 0
C8_Witness ==
  /\ lastOp = ReturnedEarly("handleBoardChange")
  /\ tripConfig.boardType = "NB"
  /\ \E d \in DOMAIN dailySelections :
       HasHotel(dailySelections[d]) /\ dailySelections[d].hotelId = 0

\* C9: the stored days is always an integer >= 1
C9_DaysIsIntegerAtLeastOne ==
  IsInteger(tripConfig.days) /\ tripConfig.days.n >= 1

\* C10: for a valid startDate and a whole days >= 1, buildTripDates returns
\* the days dates startDate, startDate + 1, ..., in that order
C10_ConsecutiveDates ==
  ( /\ pc.at = "return"
    /\ DateParse(tripConfig.startDate) # NaNTime
    /\ IsInteger(tripConfig.days)
    /\ tripConfig.days.n >= 1 )
  => tripDates = [i \in 1..tripConfig.days.n |->
                    AddDays(tripConfig.startDate, i - 1)]

(***************************************************************************)
(* C11 - C20                                                               *)
(***************************************************************************)

\* C11: buildTripDates gives the same dates in every time zone: the result
\* computed in the zone of the environment is the result of every zone
C11_SameDatesInEveryZone ==
  pc.at = "return" =>
    \A zone \in Zones :
      buildTripDates(zone, tripConfig.startDate, tripConfig.days) = tripDates

\* C12: buildTripDates returns the empty sequence when startDate is empty,
\* startDate names no calendar date, or days < 1
C12_EmptyOnInvalidInput ==
  ( /\ pc.at = "return"
    /\ \/ tripConfig.startDate = <<>>
       \/ DateParse(tripConfig.startDate) = NaNTime
       \/ LessThanOne(tripConfig.days) )
  => tripDates = <<>>

\* buildTripDates has returned for a start date with month 13 and 3 days
C12_Witness ==
  /\ pc.at = "return"
  /\ tripConfig.startDate = <<2024, 13, 1>>
  /\ tripConfig.days = Num(3)
  /\ tripDates = <<>>

\* C13: the render that follows a configuration change never prices a new
\* date sequence against a store whose keys are not yet those dates
C13_PricingReadsResyncedStore ==
  (pc.at = "effects" /\ lastOp = Ran("handleConfigChange"))
  => DOMAIN dailySelections = Range(tripDates)

\* the record priced for a date, and the catalog price of a stored id
StoredRecord(date) ==
  IF date \in DOMAIN dailySelections THEN dailySelections[date]
  ELSE EmptyObject

Matching(entries, id) ==
  {entry \in Range(entries) : Some(entry.id) = id}

CatalogPrice(entries, id) ==
  IF Matching(entries, id) = {} THEN 0
  ELSE (CHOOSE entry \in Matching(entries, id) : TRUE).price

ExpectedSubtotal(date) ==
  CatalogPrice(hotelsByCountry[tripConfig.destination],
               Get(StoredRecord(date), "hotelId"))
  + CatalogPrice(mealsByCountry[tripConfig.destination].lunch,
                 Get(StoredRecord(date), "lunchId"))
  + CatalogPrice(mealsByCountry[tripConfig.destination].dinner,
                 Get(StoredRecord(date), "dinnerId"))

\* C14: the breakdown has one row per date of the sequence, in order, and
\* the subtotal of a row is hotel price + lunch price + dinner price, each
\* the price of the entry of the destination's catalog with the stored id
\* and 0 when the id is unset or matches no entry
C14_SubtotalIsSumOfPrices ==
  /\ Len(dailyBreakdown) = Len(tripDates)
  /\ \A index \in 1..Len(tripDates) :
       /\ dailyBreakdown[index].date = tripDates[index]
       /\ dailyBreakdown[index].subtotal = ExpectedSubtotal(tripDates[index])

\* a row with hotel 100, lunch 20 and no dinner has subtotal 120
C14_Witness ==
  \E index \in 1..Len(tripDates) :
    /\ tripConfig.destination = "Turkey"
    /\ StoredRecord(tripDates[index]) = [hotelId |-> 0, lunchId |-> 1]
    /\ dailyBreakdown[index].subtotal = 120

RECURSIVE SumOfSubtotals(_)
SumOfSubtotals(n) ==
  IF n = 0 THEN 0
  ELSE SumOfSubtotals(n - 1) + ExpectedSubtotal(tripDates[n])

\* C15: the grand total is the sum of the subtotals of the dates of the
\* current sequence and is never negative; a record under a key outside the
\* sequence adds nothing to it
C15_GrandTotalIsSumOverDates ==
  /\ grandTotal = SumOfSubtotals(Len(tripDates))
  /\ grandTotal >= 0

\* a render prices a sequence while the store still holds a priced record
\* under a date that left the sequence
C15_Witness ==
  /\ pc.at = "effects"
  /\ \E date \in DOMAIN dailySelections \ Range(tripDates) :
       ExpectedSubtotal(date) > 0
  /\ \E date \in Range(tripDates) : ExpectedSubtotal(date) > 0
  /\ grandTotal > 0

Dangling(entries, id) ==
  id # undefined /\ Matching(entries, id) = {}

C17_ClearMealsOnEntryToNoBoard ==
  [][ /\ (pc'.at = "clearMeals")
           <=> ( /\ pc.at = "idle"
                 /\ lastOp' = Ran("handleBoardChange")
                 /\ tripConfig.boardType # "NB"
                 /\ tripConfig'.boardType = "NB" )
      /\ (pc.at = "clearMeals") =>
           /\ dailySelections' = clearMeals(dailySelections, DerivedDates)
           /\ tripConfig' = tripConfig
           /\ pc'.at = "idle"
    ]_vars

\* the board type went to NB and clearMeals has removed the meals of a date
\* and kept its hotel
C17_Witness ==
  /\ pc.at = "idle"
  /\ lastOp = Ran("handleBoardChange")
  /\ tripConfig.boardType = "NB"
  /\ \E date \in DOMAIN dailySelections : dailySelections[date] = [hotelId |-> 1]

\* C18: with an empty or invalid start date, or days < 1, the date sequence
\* is empty, the breakdown has no rows, the grand total is 0 and, once the
\* resync has run, the store has no entries
C18_EmptyTripHasNoRowsNoCost ==
  ( \/ tripConfig.startDate = <<>>
    \/ DateParse(tripConfig.startDate) = NaNTime
    \/ LessThanOne(tripConfig.days) )
  => /\ tripDates = <<>>
     /\ dailyBreakdown = <<>>
     /\ grandTotal = 0
     /\ (pc.at # "effects" => DOMAIN dailySelections = {})

\* days became -1 and the resync has emptied the store
C18_Witness ==
  /\ tripConfig.days = Num(0 - 1)
  /\ tripConfig.startDate # <<>>
  /\ lastOp = Ran("effects")
  /\ DOMAIN dailySelections = {}
  /\ dailyBreakdown = <<>>
  /\ grandTotal = 0

\* C19: syncWithDates applied to its own result with the same dates returns
\* that result
C19_SyncWithDatesIdempotent ==
  LET once == syncWithDates(dailySelections, tripDates)
  IN  syncWithDates(once, tripDates) = once

\* a resync is about to run on a store that an earlier resync already keyed
\* by the same dates, one of which has selections
C19_Witness ==
  /\ pc.at = "effects"
  /\ lastOp = Ran("handleConfigChange")
  /\ tripDates # <<>>
  /\ DOMAIN dailySelections = Range(tripDates)
  /\ \E date \in DOMAIN dailySelections : DOMAIN dailySelections[date] # {}

\* C20: under FB, handleMealChange(date, field, id) with a defined id leaves
\* the other meal field of the date as it was, set or unset, and dispatches
\* nothing that clears it
C20_FullBoardKeepsOtherMeal ==
  [][\A d \in Range(tripDates) : \A f \in MealFields :
       \A m \in MealIds \ {undefined} :
         ( /\ tripConfig.boardType = "FB"
           /\ lastOp' = Ran("handleMealChange")
           /\ handleMealChange(d, f, m) )
         => /\ pc'.at = "idle"
            /\ Get(StoredRecord(d)', otherField(f))
                 = Get(StoredRecord(d), otherField(f))
            /\ Get(StoredRecord(d)', "hotelId") = Get(StoredRecord(d), "hotelId")
            /\ \A other \in DOMAIN dailySelections \ {d} :
                 StoredRecord(other)' = StoredRecord(other)]_vars

\* under FB a meal was set on a date that now has both meals
C20_Witness ==
  /\ tripConfig.boardType = "FB"
  /\ lastOp = Ran("handleMealChange")
  /\ pc.at = "idle"
  /\ \E date \in DOMAIN dailySelections :
       HasLunch(dailySelections[date]) /\ HasDinner(dailySelections[date])

(***************************************************************************)
(* dailySelectionsSlice alone: its reducers dispatched on the store        *)
(***************************************************************************)
SliceDates == {<<2024, 3, 8>>, <<2024, 3, 9>>}

SliceSequences ==
  {<<>>} \cup {<<d>> : d \in SliceDates}
         \cup {<<d, e>> : d \in SliceDates, e \in SliceDates}

AtStore(date, field) == [at |-> "store", date |-> date, field |-> field]

InitSlice ==
  /\ tz \in AppZones
  /\ tripConfig = initialState
  /\ tripDates = <<>>
  /\ dailySelections = EmptyObject
  /\ loading = [isLoading |-> FALSE, loadingMessage |-> undefined]
  /\ timer = FALSE
  /\ pc = AtStore(<<>>, "")
  /\ lastOp = Ran("configureStore")

DispatchUpdateHotel(date, hotelId) ==
  /\ pc.at = "store"
  /\ dailySelections' = updateHotel(dailySelections, date, hotelId)
  /\ pc' = AtStore(date, "hotelId")
  /\ lastOp' = Ran("updateHotel")
  /\ UNCHANGED <<tz, tripConfig, loading, timer, tripDates>>

DispatchUpdateMeal(date, field, mealId) ==
  /\ pc.at = "store"
  /\ dailySelections' = updateMeal(dailySelections, date, field, mealId)
  /\ pc' = AtStore(date, field)
  /\ lastOp' = Ran("updateMeal")
  /\ UNCHANGED <<tz, tripConfig, loading, timer, tripDates>>

DispatchClearMealsOf(dates) ==
  /\ pc.at = "store"
  /\ dailySelections' = clearMeals(dailySelections, dates)
  /\ pc' = AtStore(<<>>, "")
  /\ lastOp' = Ran("clearMeals")
  /\ UNCHANGED <<tz, tripConfig, loading, timer, tripDates>>

DispatchSyncWithDates(dates) ==
  /\ pc.at = "store"
  /\ dailySelections' = syncWithDates(dailySelections, dates)
  /\ pc' = AtStore(<<>>, "")
  /\ lastOp' = Ran("syncWithDates")
  /\ UNCHANGED <<tz, tripConfig, loading, timer, tripDates>>

NextSlice ==
  \/ \E date \in SliceDates : \E hotelId \in MealIds :
       DispatchUpdateHotel(date, hotelId)
  \/ \E date \in SliceDates : \E field \in MealFields : \E mealId \in MealIds :
       DispatchUpdateMeal(date, field, mealId)
  \/ \E dates \in SliceSequences : DispatchClearMealsOf(dates)
  \/ \E dates \in SliceSequences : DispatchSyncWithDates(dates)

SpecSlice == InitSlice /\ [][NextSlice]_vars

(***************************************************************************)
(* C21 - C30                                                               *)
(***************************************************************************)

C22_UpdateHotelSetsOnlyHotel ==
  [][\A date \in SliceDates : \A hotelId \in MealIds :
       (lastOp' = Ran("updateHotel") /\ DispatchUpdateHotel(date, hotelId))
       => /\ DOMAIN dailySelections' = DOMAIN dailySelections \cup {date}
          /\ Get(dailySelections'[date], "hotelId") = hotelId
          /\ \A field \in MealFields :
               Get(dailySelections'[date], field)
                 = Get(StoredRecord(date), field)
          /\ \A other \in DOMAIN dailySelections \ {date} :
               dailySelections'[other] = dailySelections[other]]_vars

\* updateHotel on 2024-03-08 left the store with that date alone, holding
\* hotel 0 and no meals
C22_Witness ==
  /\ lastOp = Ran("updateHotel")
  /\ pc.date = <<2024, 3, 8>>
  /\ DOMAIN dailySelections = {<<2024, 3, 8>>}
  /\ dailySelections[<<2024, 3, 8>>] = [hotelId |-> 0]

\* C23: under FB or HB, handleMealChange(date, field, id) with a defined id,
\* 0 included, leaves the field of the date holding that id
C23_SetMealStoresId ==
  [][\A d \in Range(tripDates) : \A f \in MealFields :
       \A m \in MealIds \ {undefined} :
         ( /\ tripConfig.boardType \in {"FB", "HB"}
           /\ lastOp' = Ran("handleMealChange")
           /\ handleMealChange(d, f, m) )
         => Get(StoredRecord(d)', f) = m]_vars

\* C24: under FB or HB, handleMealChange(date, field, undefined) removes the
\* field from the record of the date and changes nothing else: the other
\* meal, the hotel id, the other dates and the configuration stay, and no
\* second dispatch follows
C24_ClearMealRemovesOnlyField ==
  [][\A d \in Range(tripDates) : \A f \in MealFields :
       ( /\ tripConfig.boardType \in {"FB", "HB"}
         /\ lastOp' = Ran("handleMealChange")
         /\ handleMealChange(d, f, undefined) )
       => /\ f \notin DOMAIN StoredRecord(d)'
          /\ Get(StoredRecord(d)', otherField(f))
               = Get(StoredRecord(d), otherField(f))
          /\ Get(StoredRecord(d)', "hotelId") = Get(StoredRecord(d), "hotelId")
          /\ DOMAIN dailySelections' = DOMAIN dailySelections
          /\ \A other \in DOMAIN dailySelections \ {d} :
               dailySelections'[other] = dailySelections[other]
          /\ tripConfig' = tripConfig
          /\ pc' = Idle]_vars

\* under HB a meal handler ended on a date that has a hotel and dinner and
\* no lunch
C24_Witness ==
  /\ tripConfig.boardType = "HB"
  /\ lastOp = Ran("handleMealChange")
  /\ pc.at = "idle"
  /\ \E date \in DOMAIN dailySelections :
       dailySelections[date] = [hotelId |-> 1, dinnerId |-> 1]

\* C25: clearMeals(dates) replaces each existing record of a listed date by
\* a record with its hotel id only, creates no record, and leaves the
\* records of the dates not listed as they were
C25_ClearMealsKeepsHotelOnly ==
  [][\A dates \in SliceSequences :
       (lastOp' = Ran("clearMeals") /\ DispatchClearMealsOf(dates))
       => /\ DOMAIN dailySelections' = DOMAIN dailySelections
          /\ \A d \in DOMAIN dailySelections :
               IF d \in Range(dates)
               THEN /\ DOMAIN dailySelections'[d] \subseteq {"hotelId"}
                    /\ Get(dailySelections'[d], "hotelId")
                         = Get(dailySelections[d], "hotelId")
               ELSE dailySelections'[d] = dailySelections[d]]_vars

\* the step handleConfigChange(key, value) is a point update; the derived
\* dates are a function of tz, startDate and days
PointUpdate(key, value) ==
  ( /\ tripConfig' = updateConfig(tripConfig, key, value)
    /\ handleConfigChange(key, value) ) =>
    /\ tripConfig'[key] = value
    /\ \A k \in DOMAIN tripConfig \ {key} : tripConfig'[k] = tripConfig[k]
    /\ dailySelections' = dailySelections
    /\ loading' = loading
    /\ key \in {"citizenship", "destination"} =>
         /\ tripDates' = tripDates
         /\ tz' = tz
         /\ pc' = Idle

\* C26: handleConfigChange(key, value) changes the named configuration
\* field only and leaves the selections alone; for citizenship and
\* destination the date sequence stays and no resync is pending
C26_UpdateConfigIsPointUpdate ==
  [][lastOp' = Ran("handleConfigChange") =>
       /\ \A value \in {"", countries[1]} : PointUpdate("citizenship", value)
       /\ \A value \in Range(countries) : PointUpdate("destination", value)
       /\ \A value \in StartDates : PointUpdate("startDate", value)
       /\ \A text \in DaysTexts :
            LET number == StringToNumber(text)
            IN  PointUpdate("days", IF Truthy(number) THEN number ELSE Num(1))
    ]_vars

\* citizenship and destination were changed while a date has selections,
\* and no resync is pending
C26_Witness ==
  /\ lastOp = Ran("handleConfigChange")
  /\ pc.at = "idle"
  /\ tripConfig.citizenship = countries[1]
  /\ tripConfig.destination = countries[2]
  /\ \E date \in DOMAIN dailySelections : DOMAIN dailySelections[date] # {}

\* C27: the first render has the default configuration (no citizenship,
\* days 3, the first country, FB), an empty store and loading false, and the
\* resync that follows leaves exactly 3 empty records, keyed by the start
\* date and the two days after it
C27_InitialStateAndFirstResync ==
  [][lastOp = Ran("mount") =>
       /\ tripConfig = [initialState EXCEPT !.startDate = tripConfig.startDate]
       /\ tripConfig.startDate # <<>>
       /\ initialState.days = Num(3)
       /\ initialState.destination = countries[1]
       /\ initialState.boardType = "FB"
       /\ dailySelections = EmptyObject
       /\ loading.isLoading = FALSE
       /\ Cardinality(DOMAIN dailySelections') = 3
       /\ DOMAIN dailySelections'
            = {AddDays(tripConfig.startDate, i) : i \in 0..2}
       /\ \A d \in DOMAIN dailySelections' : dailySelections'[d] = EmptyObject
    ]_vars

\* C28: whenever isLoading is true it is eventually false
C28_LoadingEventuallyClears ==
  loading.isLoading ~> ~loading.isLoading

\* C29: the stored hotel id of a date is altered or removed only by
\* handleHotelChange on that date or by a resync that drops the date
C29_HotelIdChangesOnlyBySetHotelOrResync ==
  [][\A d \in DOMAIN dailySelections :
       ( /\ HasHotel(dailySelections[d])
         /\ Get(StoredRecord(d)', "hotelId") # Get(dailySelections[d], "hotelId") )
       => \/ \E hotelId \in MealIds : handleHotelChange(d, hotelId)
          \/ pc.at = "effects" /\ d \notin Range(tripDates)]_vars

\* C30: the render that precedes the resync prices the new date sequence
\* against the store as it is, and the breakdown and the grand total it
\* computes are those computed once the resync has run
C30_PricingSameAfterResync ==
  [][pc.at = "effects" =>
       /\ dailyBreakdown' = dailyBreakdown
       /\ grandTotal' = grandTotal]_vars

\* a render has priced a changed date sequence, at a cost, against a store
\* whose keys are the dates of the old sequence
C30_Witness ==
  /\ pc.at = "effects"
  /\ lastOp = Ran("handleConfigChange")
  /\ DOMAIN dailySelections # Range(tripDates)
  /\ DOMAIN dailySelections \ Range(tripDates) # {}
  /\ Range(tripDates) \ DOMAIN dailySelections # {}
  /\ grandTotal > 0

(***************************************************************************)
(* C31 - C32                                                               *)
(***************************************************************************)

\* C31: a record that left the store cannot come back: every resync leaves
\* the store keyed by the dates of the sequence, so the record of a date
\* that left the sequence is dropped and a later resync with a sequence
\* that holds the date again gives it the empty record, and every key that
\* a step adds to the store is added with the empty record
C31_NoResurrection ==
  [][ /\ pc.at = "effects" =>
           /\ DOMAIN dailySelections' = Range(tripDates)
           /\ \A d \in DOMAIN dailySelections \ Range(tripDates) :
                \A back \in {<<d>>} \cup {<<e, d>> : e \in Range(tripDates)} :
                  syncWithDates(dailySelections', back)[d] = EmptyObject
      /\ \A d \in DOMAIN dailySelections' \ DOMAIN dailySelections :
           dailySelections'[d] = EmptyObject
    ]_vars

\* a start-date change took a date with selections out of the sequence and
\* brought another date in; the resync is about to run
C31_Witness ==
  /\ pc.at = "effects"
  /\ lastOp = Ran("handleConfigChange")
  /\ \E d \in DOMAIN dailySelections \ Range(tripDates) :
       DOMAIN dailySelections[d] # {}
  /\ Range(tripDates) \ DOMAIN dailySelections # {}

\* the records of the dates other than d, the key set and the configuration
\* are as before the step
OnlyRecordOf(d) ==
  /\ DOMAIN dailySelections' = DOMAIN dailySelections
  /\ \A other \in DOMAIN dailySelections \ {d} :
       dailySelections'[other] = dailySelections[other]
  /\ tripConfig' = tripConfig
  /\ tripDates' = tripDates

\* C32: a hotel edit, a meal edit and the clearing of the other meal under
\* HB, on a date d of the current sequence, change the record of d only
C32_EditChangesOnlyItsDate ==
  [][ /\ lastOp' = Ran("handleHotelChange") =>
           \A d \in Range(tripDates) : \A hotelId \in MealIds :
             handleHotelChange(d, hotelId) => OnlyRecordOf(d)
      /\ lastOp'.handler = "handleMealChange" /\ pc.at = "idle" =>
           \A d \in Range(tripDates) : \A f \in MealFields : \A m \in MealIds :
             handleMealChange(d, f, m) => OnlyRecordOf(d)
      /\ pc.at = "otherMeal" => OnlyRecordOf(pc.date)
    ]_vars

\* under HB a meal edit with its clearing of the other meal has ended, and
\* two dates hold different meals
C32_Witness ==
  /\ tripConfig.boardType = "HB"
  /\ lastOp = Ran("handleMealChange")
  /\ pc.at = "idle"
  /\ \E d \in DOMAIN dailySelections : \E e \in DOMAIN dailySelections \ {d} :
       /\ dailySelections[d] = [lunchId |-> 1]
       /\ dailySelections[e] = [hotelId |-> 1, dinnerId |-> 1]

=============================================================================
